---------------------------- MODULE Spec2Model ----------------------------
(***************************************************************************)
(* FrostBit frost-risk pipeline (server/app/mathModel.py, main.py).        *)
(*                                                                         *)
(*   raw CIMIS document --cimis_json_to_records--> hourly rows             *)
(*     --compute_frost_risk_from_cimis (one loop step per row)-->          *)
(*     enriched records --get_frost_risk--> daily summary + risk level     *)
(*                                                                         *)
(* Numbers.  Python floats are modelled in fixed point: temperatures and   *)
(* humidities in millionths (10.00 degC = 10000000), probabilities in      *)
(* billionths (0.3 = 300 * Micro).  A quotient (the cooling rate) is kept as *)
(* an exact reduced fraction <<numerator, denominator>>.                   *)
(* Optional values.  Python's None is the empty set and a present value v  *)
(* is the singleton {v}.                                                   *)
(* Strings that the code takes apart (hour codes, station numbers) are     *)
(* sequences of decimal digits; a date string YYYY-MM-DD is <<y, m, d>>.   *)
(***************************************************************************)
EXTENDS Integers, Sequences, FiniteSets, TLC

None == {}
Some(v) == {v}
Get(o) == CHOOSE v \in o : TRUE

\* One unit in millionths.
Micro == 1000 * 1000

-----------------------------------------------------------------------------
(* Bounds of the input documents.                                          *)

MaxRecs == 3

-----------------------------------------------------------------------------
(* Generic helpers.                                                        *)

Abs(n) == IF n < 0 THEN -n ELSE n

RECURSIVE Gcd(_, _)
Gcd(a, b) == IF b = 0 THEN a ELSE Gcd(b, a % b)

\* Python float division n / d (d > 0) as an exact reduced fraction.
Div(n, d) ==
    LET g == Gcd(Abs(n), d)
    IN  IF n = 0 THEN <<0, 1>> ELSE <<n \div g, d \div g>>

SetMin(S) == CHOOSE x \in S : \A y \in S : x <= y
SetMax(S) == CHOOSE x \in S : \A y \in S : x >= y

\* Python's comparison of two digit strings (str.__lt__): lexicographic.
RECURSIVE StrLess(_, _)
StrLess(a, b) ==
    IF b = <<>> THEN FALSE
    ELSE IF a = <<>> THEN TRUE
    ELSE IF Head(a) /= Head(b) THEN Head(a) < Head(b)
    ELSE StrLess(Tail(a), Tail(b))

-----------------------------------------------------------------------------
(* The raw document: Data.Providers[*].Records[*] (spec section 6).        *)
(* A raw record maps the keys Station, Date, Hour and the four value keys  *)
(* to optional values; a value object is [Value |-> optional string].      *)

RawRecord(station, date, hour, airTmp, airTmpAlt, relHum, relHumAlt) ==
    [Station |-> station, Date |-> date, Hour |-> hour,
     HlyAirTmp |-> airTmp, HlyRelHum |-> relHum]
    @@ ("hly-air-tmp" :> airTmpAlt) @@ ("hly-rel-hum" :> relHumAlt)

ValueObj(v) == Some([Value |-> Some(v), Qc |-> "V"])

Station145 == <<1, 4, 5>>
Station2 == <<2>>
Jan1 == <<2024, 1, 1>>

\* Two well-formed consecutive hours of station 145, as get_cimis_data
\* builds them: 10.00 degC at 03:00, then 8.00 degC at 04:00.
WellFormedRecords ==
    { RawRecord(Some(Station145), Some(Jan1), Some(<<0, 3, 0, 0>>), ValueObj("10.00"), None,
                ValueObj("80"), None),
      RawRecord(Some(Station145), Some(Jan1), Some(<<0, 4, 0, 0>>), ValueObj("8.00"), None,
                ValueObj("80"), None) }

\* A second station, named on the record or only on its provider (with a
\* bare hour), and a colder hour (blossom temperature near the thresholds).
OtherRecords ==
    { RawRecord(Some(Station2), Some(Jan1), Some(<<0, 3, 0, 0>>), ValueObj("8.00"), None,
                ValueObj("80"), None),
      RawRecord(None, Some(Jan1), Some(<<4>>), ValueObj("10.00"), None,
                ValueObj("80"), None),
      RawRecord(Some(Station145), Some(Jan1), Some(<<0, 5, 0, 0>>), ValueObj("-4.50"), None,
                ValueObj("80.5"), None) }

\* Records with an irregular part: a missing date, a missing hour, an hour
\* code that gives no time of day, and absent, empty, null or unparseable
\* values.
IrregularRecords ==
    LET at4(date, hour, air, airAlt, hum) ==
            RawRecord(Some(Station145), date, hour, air, airAlt, hum, None)
        j == Some(Jan1)
        h4 == Some(<<0, 4, 0, 0>>)
        t10 == ValueObj("10.00")
        t8 == ValueObj("8.00")
        h80 == ValueObj("80")
    IN  { at4(None, h4, t10, None, h80),
          at4(j, None, t10, None, h80),
          at4(j, Some(<<0, 4, 3, 0>>), t10, None, h80),
          at4(j, h4, None, None, Some([Value |-> None, Qc |-> "M"])),
          at4(j, h4, ValueObj(""), t8, h80),
          at4(j, h4, ValueObj("n/a"), t8, ValueObj("--")) }

RawRecords == WellFormedRecords \cup OtherRecords \cup IrregularRecords

RECURSIVE SeqsUpTo(_, _)
SeqsUpTo(S, n) ==
    IF n = 0 THEN {<<>>}
    ELSE LET shorter == SeqsUpTo(S, n - 1)
         IN  shorter \cup { Append(q, x) : q \in {p \in shorter : Len(p) = n - 1}, x \in S }

Provider(nbr, recs) == [Station |-> [StationNbr |-> nbr], Records |-> recs]

\* One provider (of station 145) holding every record, or two providers:
\* the first record under station 145's, the others under station 2's.
Documents ==
    LET seqs == SeqsUpTo(RawRecords, MaxRecs)
    IN  { [Data |-> [Providers |-> <<Provider(Some(Station145), q)>>]] : q \in seqs }
        \cup
        { [Data |-> [Providers |->
              <<Provider(Some(Station145), SubSeq(q, 1, 1)),
                Provider(Some(Station2), SubSeq(q, 2, Len(q)))>>]] : q \in seqs \ {<<>>} }

-----------------------------------------------------------------------------
(* Record Normalizer: mathModel.py, _get_cimis_value and                   *)
(* cimis_json_to_records.                                                  *)

\* float(v) on the value strings of the model: the number in millionths, or
\* None where Python raises ValueError.
float(v) ==
    CASE v = "10.00" -> Some(10 * Micro)
      [] v = "8.00"  -> Some(8 * Micro)
      [] v = "5.00"  -> Some(5 * Micro)
      [] v = "-4.50" -> Some(-4500000)
      [] v = "80"    -> Some(80 * Micro)
      [] v = "80.5"  -> Some(80500000)
      [] OTHER       -> None

\* for key in keys: the first key decides unless it is absent (continue) or
\* float() raises (continue); an empty or null Value returns None at once.
RECURSIVE _get_cimis_value(_, _)
_get_cimis_value(rec, keys) ==
    IF keys = <<>> THEN None
    ELSE LET obj == rec[Head(keys)]
         IN  IF obj = None THEN _get_cimis_value(rec, Tail(keys))
             ELSE LET v == Get(obj).Value
                  IN  IF v = Some("") \/ v = None THEN None
                      ELSE IF float(Get(v)) /= None THEN float(Get(v))
                      ELSE _get_cimis_value(rec, Tail(keys))

\* Faulty variant: the code is cut to its first two characters whatever its
\* length and ending.
HourStr_AlwaysCut(hour_raw_str) ==
    IF Len(hour_raw_str) >= 2 THEN SubSeq(hour_raw_str, 1, 2)
    ELSE [i \in 1..(2 - Len(hour_raw_str)) |-> 0] \o hour_raw_str

\* hour_raw_str[:2] when the code is 4 long and ends in "00", else zfill(2).
HourStr(hour_raw_str) ==
    IF Len(hour_raw_str) = 4 /\ SubSeq(hour_raw_str, 3, 4) = <<0, 0>>
    THEN SubSeq(hour_raw_str, 1, 2)
    ELSE IF Len(hour_raw_str) >= 2 THEN hour_raw_str
    ELSE [i \in 1..(2 - Len(hour_raw_str)) |-> 0] \o hour_raw_str

IsLeap(y) == (y % 4 = 0 /\ y % 100 /= 0) \/ y % 400 = 0

DaysInMonth(y, m) ==
    IF m = 2 THEN (IF IsLeap(y) THEN 29 ELSE 28)
    ELSE IF m \in {4, 6, 9, 11} THEN 30 ELSE 31

\* datetime.fromisoformat(f"{date_str} {hour_str}:00"): the date-time, or
\* None where Python raises ValueError (no such calendar day, an hour that
\* is not two digits 00..23).
fromisoformat(date_str, hour_str) ==
    LET y == date_str[1]
        m == date_str[2]
        d == date_str[3]
        hh == 10 * hour_str[1] + hour_str[2]
    IN  IF /\ m \in 1..12
           /\ d \in 1..DaysInMonth(y, m)
           /\ Len(hour_str) = 2
           /\ hh <= 23
        THEN Some([year |-> y, month |-> m, day |-> d, hour |-> hh])
        ELSE None

\* Hours since the start of the date-time's year: what ordering and
\* differences of the model's date-times (all of one year) rest on.
RECURSIVE DaysBefore(_, _)
DaysBefore(y, m) == IF m = 1 THEN 0 ELSE DaysBefore(y, m - 1) + DaysInMonth(y, m - 1)

Hours(ts) == (DaysBefore(ts.year, ts.month) + ts.day - 1) * 24 + ts.hour

\* Lines 177-210: the row of one raw record, or None when the record is
\* skipped (continue).
Row(provider, rec) ==
    LET station == IF rec.Station /= None /\ rec.Station /= Some(<<>>)
                   THEN rec.Station ELSE provider.Station.StationNbr
        hour_str == HourStr(Get(rec.Hour))
        timestamp == fromisoformat(Get(rec.Date), hour_str)
    IN  IF rec.Date = None \/ rec.Hour = None THEN None
        ELSE IF timestamp = None THEN None
        ELSE Some([station |-> station,
                   date |-> Get(rec.Date),
                   hour |-> hour_str,
                   timestamp |-> Get(timestamp),
                   air_temp_c |-> _get_cimis_value(rec, <<"HlyAirTmp", "hly-air-tmp">>),
                   rel_hum |-> _get_cimis_value(rec, <<"HlyRelHum", "hly-rel-hum">>)])

\* Faulty variant: a record without an air temperature is skipped as well.
RECURSIVE RowsOf_SkipNoData(_, _)
RowsOf_SkipNoData(provider, recs) ==
    IF recs = <<>> THEN <<>>
    ELSE LET row == Row(provider, Head(recs))
         IN  (IF row = None \/ Get(row).air_temp_c = None THEN <<>> ELSE <<Get(row)>>)
             \o RowsOf_SkipNoData(provider, Tail(recs))

\* The two nested loops: rows in document order, skipped records left out.
RECURSIVE RowsOf(_, _)
RowsOf(provider, recs) ==
    IF recs = <<>> THEN <<>>
    ELSE LET row == Row(provider, Head(recs))
         IN  (IF row = None THEN <<>> ELSE <<Get(row)>>) \o RowsOf(provider, Tail(recs))

RECURSIVE AllRows(_)
AllRows(providers) ==
    IF providers = <<>> THEN <<>>
    ELSE RowsOf(Head(providers), Head(providers).Records) \o AllRows(Tail(providers))

\* The sort key (r["station"], r["timestamp"]) compared as Python tuples.
KeyLess(r1, r2) ==
    LET s1 == Get(r1.station)
        s2 == Get(r2.station)
    IN  IF s1 /= s2 THEN StrLess(s1, s2)
        ELSE Hours(r1.timestamp) < Hours(r2.timestamp)

\* list.sort is stable: a row goes after every row whose key is not greater.
RECURSIVE Insert(_, _)
Insert(sorted, row) ==
    IF sorted = <<>> THEN <<row>>
    ELSE IF KeyLess(row, Head(sorted)) THEN <<row>> \o sorted
    ELSE <<Head(sorted)>> \o Insert(Tail(sorted), row)

RECURSIVE Sort(_)
Sort(rows) ==
    IF rows = <<>> THEN <<>>
    ELSE Insert(Sort(SubSeq(rows, 1, Len(rows) - 1)), rows[Len(rows)])

\* Faulty variant: the final sort is forgotten.
cimis_json_to_records_Unsorted(raw_json) == AllRows(raw_json.Data.Providers)

cimis_json_to_records(raw_json) == Sort(AllRows(raw_json.Data.Providers))

-----------------------------------------------------------------------------
(* The data source: CIMIS.py, get_cimis_data builds the raw document from  *)
(* the rows of cimis_hourly (hour an integer, temperature and humidity     *)
(* optional floats).                                                       *)

RECURSIVE Digits(_)
Digits(n) == IF n < 10 THEN <<n>> ELSE Digits(n \div 10) \o <<n % 10>>

\* f"{int(r.hour):02d}00" for an hour that is not negative.
HourCode(hour) == (IF hour < 10 THEN <<0, hour>> ELSE Digits(hour)) \o <<0, 0>>

\* f"{r.air_temp:.2f}" and f"{int(r.humidity)}" on the values of the model.
FormatTwoDecimals(x) ==
    CASE x = 5 * Micro  -> "5.00"
      [] x = 8 * Micro  -> "8.00"
      [] x = 10 * Micro -> "10.00"

FormatInt(x) ==
    CASE x = 80 * Micro -> "80"
      [] x = 80500000   -> "80"

\* Lines 83-98: the record of one row; only the items the row has.
DbRecord(r) ==
    RawRecord(Some(r.station_id), Some(r.date), Some(HourCode(r.hour)),
              IF r.air_temp /= None THEN ValueObj(FormatTwoDecimals(Get(r.air_temp))) ELSE None,
              None,
              IF r.humidity /= None THEN ValueObj(FormatInt(Get(r.humidity))) ELSE None,
              None)

RECURSIVE DbRecords(_)
DbRecords(rows) ==
    IF rows = <<>> THEN <<>> ELSE <<DbRecord(Head(rows))>> \o DbRecords(Tail(rows))

\* Lines 102-115: one provider, without a station of its own.
get_cimis_data(rows) == [Data |-> [Providers |-> <<Provider(None, DbRecords(rows))>>]]

-----------------------------------------------------------------------------
(* Physical quantities and the stage damage model (mathModel.py).          *)
(* The transcendental formulas are tabulated on the inputs of the model:   *)
(* each entry is the source formula evaluated in IEEE doubles and rounded  *)
(* to the fixed point.                                                     *)

wet_bulb_temperature(temperature_c, relative_humidity) ==
    LET p == <<temperature_c, relative_humidity>>
    IN  CASE p = <<10000000, 80000000>> -> 7928648
          [] p = <<10000000, 80500000>> -> 7977548
          [] p = <<8000000, 80000000>> -> 6008493
          [] p = <<8000000, 80500000>> -> 6054745
          [] p = <<-4500000, 80000000>> -> -5992778
          [] p = <<-4500000, 80500000>> -> -5963074
          [] p = <<-5000000, 80000000>> -> -6472842
          [] p = <<-5000000, 80500000>> -> -6443799

blossom_temp(temperature_c, relative_humidity, delta_orchard_c) ==
    LET wb == wet_bulb_temperature(temperature_c, relative_humidity)
    IN  temperature_c - delta_orchard_c - (temperature_c - wb)

dew_point_temperature(temperature_c, relative_humidity) ==
    LET p == <<temperature_c, relative_humidity>>
    IN  IF relative_humidity <= 0 THEN temperature_c
        ELSE CASE p = <<10000000, 80000000>> -> 6709163
               [] p = <<10000000, 80500000>> -> 6799862
               [] p = <<8000000, 80000000>> -> 4761744
               [] p = <<8000000, 80500000>> -> 4851003
               [] p = <<-4500000, 80000000>> -> -7419102
               [] p = <<-4500000, 80500000>> -> -7338588
               [] p = <<-5000000, 80000000>> -> -7906676
               [] p = <<-5000000, 80500000>> -> -7826502

\* ALMOND_LT_CONFIG.stages, in insertion order, with LT10/LT90 in millionths.
StageNames == <<"pinkbud", "fullbloom", "petalfall", "fruitset", "smallnut">>

ALMOND_LT_CONFIG ==
    [pinkbud   |-> [lt10_c |-> -3500000, lt90_c |-> -5500000],
     fullbloom |-> [lt10_c |-> -3000000, lt90_c |-> -4500000],
     petalfall |-> [lt10_c |-> -2800000, lt90_c |-> -5000000],
     fruitset  |-> [lt10_c |-> -2500000, lt90_c |-> -4700000],
     smallnut  |-> [lt10_c |-> -2800000, lt90_c |-> -4500000]]

\* str.lower() on the strings of the model.
lower(s) ==
    CASE s = "Almond"   -> "almond"
      [] s = "Pinkbud"  -> "pinkbud"
      [] s = "PINKBUD"  -> "pinkbud"
      [] s = "SmallNut" -> "smallnut"
      [] OTHER          -> s

\* The outcome of a call: the value returned or the exception raised.
Returned(v) == [ok |-> TRUE, value |-> v]
Raised(e) == [ok |-> FALSE, error |-> e]

\* Faulty variant: the stage name is matched as given, letter case included.
get_damage_parameters_CaseSensitive(stage) ==
    CASE stage = "pinkbud"   -> Some([a |-> 100, b |-> 15])
      [] stage = "fullbloom" -> Some([a |-> 90, b |-> 14])
      [] stage = "petalfall" -> Some([a |-> 80, b |-> 13])
      [] stage = "fruitset"  -> Some([a |-> 70, b |-> 12])
      [] stage = "smallnut"  -> Some([a |-> 60, b |-> 11])
      [] OTHER               -> None

\* (a, b) in tenths for the lower-cased stage name, or None where the code
\* raises ValueError.
get_damage_parameters(stage) ==
    LET s == lower(stage)
    IN  CASE s = "pinkbud"   -> Some([a |-> 100, b |-> 15])
          [] s = "fullbloom" -> Some([a |-> 90, b |-> 14])
          [] s = "petalfall" -> Some([a |-> 80, b |-> 13])
          [] s = "fruitset"  -> Some([a |-> 70, b |-> 12])
          [] s = "smallnut"  -> Some([a |-> 60, b |-> 11])
          [] OTHER           -> None

\* z = a + b * temp_c as <<tenths, rest>>: z = tenths / 10 + rest / 10^7 with
\* 0 <= rest < 10^6 (a and b in tenths, temp_c in millionths).
Exponent(ab, temp_c) ==
    LET whole == temp_c \div Micro
        part == ab.b * (temp_c % Micro)
    IN  <<ab.a + ab.b * whole + part \div Micro, part % Micro>>

\* math.exp(-z) raises OverflowError ("math range error") when -z exceeds
\* log(sys.float_info.max) = 709.782712893384.
ExpOverflows(z) == z[1] < -7098 \/ (z[1] = -7098 /\ z[2] < 172872)

\* 1.0 + exp(-z) is the double 1.0 when exp(-z) <= 2^-53, that is from
\* z = 53 log 2 = 36.7368005696771 on.
ExpVanishes(z) == z[1] > 367 \/ (z[1] = 367 /\ z[2] >= 368006)

\* 1.0 / (1.0 + exp(-z)) in billionths. A double strictly between 0 and 1
\* is tabulated rounded to the billionth but never onto 0 or 10^9, which
\* stand for the doubles 0.0 and 1.0 themselves.
Logistic(z) ==
    IF ExpOverflows(z) THEN Raised("OverflowError")
    ELSE IF ExpVanishes(z) THEN Returned(1000 * Micro)
    ELSE Returned(
        CASE z = <<-6910, 0>> -> 1
          [] z = <<-6420, 0>> -> 1
          [] z = <<-5930, 0>> -> 1
          [] z = <<-5440, 0>> -> 1
          [] z = <<-3650, 0>> -> 1
          [] z = <<-3410, 0>> -> 1
          [] z = <<-3170, 0>> -> 1
          [] z = <<-2930, 0>> -> 1
          [] z = <<-2690, 0>> -> 1
          [] z = <<-275, 0>> -> 1
          [] z = <<-260, 0>> -> 1
          [] z = <<-245, 0>> -> 1
          [] z = <<-230, 0>> -> 1
          [] z = <<-215, 0>> -> 1
          [] z = <<-200, 0>> -> 2
          [] z = <<-190, 0>> -> 6
          [] z = <<-180, 0>> -> 15
          [] z = <<-170, 0>> -> 41
          [] z = <<-160, 0>> -> 113
          [] z = <<-125, 0>> -> 3727
          [] z = <<-120, 0>> -> 6144
          [] z = <<-115, 0>> -> 10130
          [] z = <<-110, 0>> -> 16701
          [] z = <<-105, 0>> -> 27536
          [] z = <<-50, 0>> -> 6692851
          [] z = <<-23, 798738>> -> 97957652
          [] z = <<-22, 118211>> -> 100817062
          [] z = <<-20, 325896>> -> 122667307
          [] z = <<-20, 674412>> -> 126467630
          [] z = <<-18, 853054>> -> 152555796
          [] z = <<-17, 79442>> -> 155505674
          [] z = <<-17, 230613>> -> 157501261
          [] z = <<-17, 406186>> -> 159845054
          [] z = <<-15, 380212>> -> 188164859
          [] z = <<-15, 786814>> -> 194454952
          [] z = <<-14, 86664>> -> 199194941
          [] z = <<-14, 443112>> -> 204941879
          [] z = <<-13, 907370>> -> 229831481
          [] z = <<-12, 343015>> -> 237633380
          [] z = <<-11, 93886>> -> 251503165
          [] z = <<-11, 480038>> -> 258841960
          [] z = <<-8, 101108>> -> 312192461
          [] z = <<-8, 516964>> -> 321191050
          [] z = <<-5, 108330>> -> 380089821
          [] z = <<-5, 553890>> -> 390642810
          [] z = <<5, 0>> -> 622459331
          [] z = <<10, 0>> -> 731058579
          [] z = <<15, 0>> -> 817574476
          [] z = <<20, 0>> -> 880797078
          [] z = <<25, 0>> -> 924141820
          [] z = <<60, 0>> -> 997527377
          [] z = <<70, 0>> -> 999088949
          [] z = <<80, 0>> -> 999664650
          [] z = <<90, 0>> -> 999876605
          [] z = <<100, 0>> -> 999954602
          [] z = <<115, 0>> -> 999989870
          [] z = <<115, 93423>> -> 999989964
          [] z = <<115, 602195>> -> 999990462
          [] z = <<130, 0>> -> 999997740
          [] z = <<130, 101916>> -> 999997763
          [] z = <<130, 656940>> -> 999997883
          [] z = <<136, 215128>> -> 999998786
          [] z = <<136, 753028>> -> 999998849
          [] z = <<145, 0>> -> 999999496
          [] z = <<145, 110409>> -> 999999501
          [] z = <<145, 711685>> -> 999999530
          [] z = <<153, 143776>> -> 999999777
          [] z = <<153, 730576>> -> 999999789
          [] z = <<160, 0>> -> 999999887
          [] z = <<160, 118902>> -> 999999889
          [] z = <<160, 766430>> -> 999999896
          [] z = <<170, 0>> -> 999999959
          [] z = <<170, 72424>> -> 999999959
          [] z = <<170, 708124>> -> 999999961
          [] z = <<175, 0>> -> 999999975
          [] z = <<175, 127395>> -> 999999975
          [] z = <<175, 821175>> -> 999999977
          [] z = <<187, 1072>> -> 999999992
          [] z = <<187, 685672>> -> 999999993
          [] z = <<190, 0>> -> 999999994
          [] z = <<203, 929720>> -> 999999999
          [] z = <<204, 663220>> -> 999999999
          [] z = <<210, 0>> -> 999999999
          [] z = <<225, 0>> -> 999999999
          [] z = <<230, 0>> -> 999999999
          [] z = <<250, 0>> -> 999999999
          [] z = <<275, 0>> -> 999999999
          [] z = <<280, 0>> -> 999999999
          [] z = <<300, 0>> -> 999999999
          [] z = <<310, 0>> -> 999999999
          [] z = <<325, 0>> -> 999999999
          [] z = <<335, 0>> -> 999999999
          [] z = <<340, 0>> -> 999999999)

\* a, b = get_damage_parameters(stage) (its ValueError propagates);
\* z = a + b * temp_c; p = 1 / (1 + exp(-z)).
damage_curve(temp_c, stage) ==
    LET params == get_damage_parameters(stage)
    IN  IF params = None THEN Raised("ValueError")
        ELSE Logistic(Exponent(Get(params), temp_c))

estimate_damage_at_temperature(temperature_c, stage) == damage_curve(temperature_c, stage)

-----------------------------------------------------------------------------
(* Frost Risk Orchestrator: one iteration of the loop of                   *)
(* compute_frost_risk_from_cimis over the sorted rows.                     *)

DeltaOrchard == 1 * Micro

\* dt = (timestamp - prev_time[station]).total_seconds() / 3600.0
ElapsedHours(prev, timestamp) == Hours(timestamp) - Hours(prev)

\* Faulty variant: the timestamps are ignored (always one hour).
CoolingRate_UnitHour(r, prevTemp, prevTime) ==
    IF r.station \in DOMAIN prevTemp /\ prevTemp[r.station] /= None /\ r.air_temp_c /= None
    THEN Div(Get(prevTemp[r.station]) - Get(r.air_temp_c), 1)
    ELSE <<0, 1>>

\* Faulty variant: a non-positive elapsed time gives a rate of 0.0.
CoolingRate_ZeroWhenNoElapsed(r, prevTemp, prevTime) ==
    IF r.station \in DOMAIN prevTemp /\ prevTemp[r.station] /= None /\ r.air_temp_c /= None
    THEN LET dt == ElapsedHours(Get(prevTime[r.station]), r.timestamp)
         IN  IF dt > 0 THEN Div(Get(prevTemp[r.station]) - Get(r.air_temp_c), dt)
             ELSE <<0, 1>>
    ELSE <<0, 1>>

\* Faulty variant: the previous values are taken from another station's
\* entry when the maps hold one.
CoolingRate_CrossStation(r, prevTemp, prevTime) ==
    LET others == DOMAIN prevTemp \ {r.station}
        key == IF others /= {} THEN CHOOSE s \in others : TRUE ELSE r.station
    IN  IF key \in DOMAIN prevTemp /\ prevTemp[key] /= None
        THEN LET dt == ElapsedHours(Get(prevTime[key]), r.timestamp)
                 dt_hours == IF prevTime[key] /= None /\ dt > 0 THEN dt ELSE 1
             IN  IF r.air_temp_c /= None
                 THEN Div(Get(prevTemp[key]) - Get(r.air_temp_c), dt_hours)
                 ELSE <<0, 1>>
        ELSE <<0, 1>>

\* Lines 274-286: the cooling rate of row r given the previous-value maps.
CoolingRate(r, prevTemp, prevTime) ==
    IF r.station \in DOMAIN prevTemp /\ prevTemp[r.station] /= None
    THEN LET dt == ElapsedHours(Get(prevTime[r.station]), r.timestamp)
             dt_hours == IF prevTime[r.station] /= None /\ dt > 0 THEN dt ELSE 1
         IN  IF r.air_temp_c /= None
             THEN Div(Get(prevTemp[r.station]) - Get(r.air_temp_c), dt_hours)
             ELSE <<0, 1>>
    ELSE <<0, 1>>

\* Lines 288-289: the previous values of the row's station become the row's,
\* a null temperature included.
UpdatePrevTemp_KeepLast(prevTemp, r) ==
    IF r.air_temp_c = None THEN prevTemp ELSE (r.station :> r.air_temp_c) @@ prevTemp

UpdatePrevTemp(prevTemp, r) == (r.station :> r.air_temp_c) @@ prevTemp

UpdatePrevTime(prevTime, r) == (r.station :> Some(r.timestamp)) @@ prevTime

\* Faulty variant: the last configured stage is left out.
StageData_Partial(blossom_temp_c) ==
    IF blossom_temp_c = None THEN <<>>
    ELSE [stage_name \in {StageNames[i] : i \in 1..(Len(StageNames) - 1)} |->
            [LT10_C |-> ALMOND_LT_CONFIG[stage_name].lt10_c,
             LT90_C |-> ALMOND_LT_CONFIG[stage_name].lt90_c,
             damage_prob |-> estimate_damage_at_temperature(Get(blossom_temp_c), stage_name).value]]

\* Lines 291-300: damage per stage when the blossom temperature is known.
\* Every stage is configured and the blossom temperature is far inside the
\* range of exp, so each call returns and its value is stored.
StageData(blossom_temp_c) ==
    IF blossom_temp_c = None THEN <<>>
    ELSE [stage_name \in {StageNames[i] : i \in DOMAIN StageNames} |->
            [LT10_C |-> ALMOND_LT_CONFIG[stage_name].lt10_c,
             LT90_C |-> ALMOND_LT_CONFIG[stage_name].lt90_c,
             damage_prob |-> estimate_damage_at_temperature(Get(blossom_temp_c), stage_name).value]]

\* datetime.isoformat(): YYYY-MM-DDTHH:MM:SS.
isoformat(ts) == <<ts.year, ts.month, ts.day, "T", ts.hour, 0, 0>>

\* Lines 259-313: the enriched record of row r.
RecordOut(r, prevTemp, prevTime, delta_orchard_c) ==
    LET have == r.air_temp_c /= None /\ r.rel_hum /= None
        air == Get(r.air_temp_c)
        hum == Get(r.rel_hum)
        blossom == IF have THEN Some(blossom_temp(air, hum, delta_orchard_c)) ELSE None
    IN  [station |-> r.station,
         timestamp |-> isoformat(r.timestamp),
         air_temperature_c |-> r.air_temp_c,
         relative_humidity |-> r.rel_hum,
         dew_point_c |-> IF have THEN Some(dew_point_temperature(air, hum)) ELSE None,
         wet_bulb_c |-> IF have THEN Some(wet_bulb_temperature(air, hum)) ELSE None,
         blossom_temp_c |-> blossom,
         cooling_rate_c_per_hr |-> CoolingRate(r, prevTemp, prevTime),
         stages |-> StageData(blossom)]

\* Lines 252-315: the whole loop over rows, started with the given maps.
RECURSIVE EnrichFrom(_, _, _)
EnrichFrom(rows, prevTemp, prevTime) ==
    IF rows = <<>> THEN <<>>
    ELSE <<RecordOut(Head(rows), prevTemp, prevTime, DeltaOrchard)>>
         \o EnrichFrom(Tail(rows), UpdatePrevTemp(prevTemp, Head(rows)),
                       UpdatePrevTime(prevTime, Head(rows)))

\* The pass on rows with fresh previous-value maps (lines 253-254).
EnrichAll(rows) == EnrichFrom(rows, <<>>, <<>>)

-----------------------------------------------------------------------------
(* Daily Aggregator and Risk Classifier: get_frost_risk, main.py 98-153.   *)

capitalize(stage_name) ==
    CASE stage_name = "pinkbud"   -> "Pinkbud"
      [] stage_name = "fullbloom" -> "Fullbloom"
      [] stage_name = "petalfall" -> "Petalfall"
      [] stage_name = "fruitset"  -> "Fruitset"
      [] stage_name = "smallnut"  -> "Smallnut"

\* int(x) of a float in millionths: truncation toward zero.
int(x) == IF x >= 0 THEN x \div Micro ELSE -((-x) \div Micro)

Values(seq, field) == { Get(seq[i][field]) : i \in {j \in DOMAIN seq : seq[j][field] /= None} }

\* Faulty variant: the minimum is taken instead of the maximum.
StageProbability_Min(recs, stage_name) ==
    LET stage_probs == { recs[i].stages[stage_name].damage_prob :
                           i \in {j \in DOMAIN recs : stage_name \in DOMAIN recs[j].stages} }
    IN  IF stage_probs /= {} THEN SetMin(stage_probs) ELSE 0

\* Lines 123-131: the maximum damage_prob over the records that carry the
\* stage, 0.0 when none does.
StageProbability(recs, stage_name) ==
    LET stage_probs == { recs[i].stages[stage_name].damage_prob :
                           i \in {j \in DOMAIN recs : stage_name \in DOMAIN recs[j].stages} }
    IN  IF stage_probs /= {} THEN SetMax(stage_probs) ELSE 0

\* Line 133, over the stages in order: max_damage_overall = max(max_damage_overall, p).
RECURSIVE MaxDamageOverall(_, _)
MaxDamageOverall(recs, n) ==
    IF n = 0 THEN 0
    ELSE LET before == MaxDamageOverall(recs, n - 1)
             p == StageProbability(recs, StageNames[n])
         IN  IF p > before THEN p ELSE before

\* Faulty variant: the thresholds themselves fall into the lower bucket.
RiskLevel_Inclusive(max_damage_overall) ==
    IF max_damage_overall <= 300 * Micro THEN "low"
    ELSE IF max_damage_overall <= 600 * Micro THEN "moderate"
    ELSE "high"

\* Lines 148-153: the thresholds 0.3 and 0.6 in billionths.
RiskLevel(max_damage_overall) ==
    IF max_damage_overall < 300 * Micro THEN "low"
    ELSE IF max_damage_overall < 600 * Micro THEN "moderate"
    ELSE "high"

CropStages(recs) ==
    [display_name \in {capitalize(StageNames[i]) : i \in DOMAIN StageNames} |->
        LET stage_name == CHOOSE n \in DOMAIN ALMOND_LT_CONFIG : capitalize(n) = display_name
            p == StageProbability(recs, stage_name)
            ab == Get(get_damage_parameters(stage_name))
        IN  [probability |-> p,
             frostProbabilityIndex |-> p,
             lt10 |-> ALMOND_LT_CONFIG[stage_name].lt10_c,
             lt90 |-> ALMOND_LT_CONFIG[stage_name].lt90_c,
             parameterA |-> ab.a,
             parameterB |-> ab.b]]

\* Lines 107-196: the summary of a group of enriched records.
Summary(recs, station) ==
    LET temps == Values(recs, "air_temperature_c")
        rhs == Values(recs, "relative_humidity")
        dew_points == Values(recs, "dew_point_c")
        air_min == IF temps /= {} THEN SetMin(temps) ELSE 0
    IN  [status |-> 200,
         temp |-> air_min,
         riskLevel |-> RiskLevel(MaxDamageOverall(recs, Len(StageNames))),
         stages |-> CropStages(recs),
         stationId |-> station,
         airTempMin |-> air_min,
         airTempMax |-> IF temps /= {} THEN SetMax(temps) ELSE 0,
         dewPointMin |-> IF dew_points /= {} THEN SetMin(dew_points) ELSE 0,
         dewPointMax |-> IF dew_points /= {} THEN SetMax(dew_points) ELSE 0,
         humidityMin |-> IF rhs /= {} THEN int(SetMin(rhs)) ELSE 0,
         humidityMax |-> IF rhs /= {} THEN int(SetMax(rhs)) ELSE 0]

\* Line 99: the records of the requested station.
StationRecords(all, station) ==
    LET InStation(r) == r.station = station
    IN  SelectSeq(all, InStation)

\* Faulty variant: an empty result is summarized like any other.
Summarize_NoEmptyCheck(all, station) == Summary(StationRecords(all, station), station)

\* Lines 92-196: HTTP 404 when the run or the station's group is empty, else
\* the summary of the station's group.
Summarize(all, station) ==
    IF all = <<>>
    THEN [status |-> 404, detail |-> "No CIMIS data found for requested station/date."]
    ELSE IF StationRecords(all, station) = <<>>
    THEN [status |-> 404, detail |-> "No records for requested station."]
    ELSE Summary(StationRecords(all, station), station)

-----------------------------------------------------------------------------
(* The request handler as a state machine.                                 *)

VARIABLES
    request,     \* the query parameters crop and stationId of GET /frost-risk
    raw_json,    \* the document get_cimis_data returned (None before the call)
    pc,          \* "request", "enrich" (the loop), "done"
    records,     \* cimis_json_to_records(raw_json)
    idx,         \* the loop's position in records (1-based, next to process)
    prev_temp,   \* station -> previous air temperature (optional)
    prev_time,   \* station -> previous timestamp (optional)
    results,     \* the enriched records emitted so far
    response     \* the handler's answer (None until it returns or raises)

vars == <<request, raw_json, pc, records, idx, prev_temp, prev_time, results, response>>

Requests ==
    { [crop |-> "Almond", station_id |-> s] : s \in {None, Some(Station2)} }
    \cup { [crop |-> "peach", station_id |-> None] }

Init ==
    /\ request \in Requests
    /\ raw_json = None
    /\ pc = "request"
    /\ records = <<>>
    /\ idx = 1
    /\ prev_temp = <<>>
    /\ prev_time = <<>>
    /\ results = <<>>
    /\ response = None

\* main.py 81: station = station_id or "145".
RequestedStation(req) == IF req.station_id /= None THEN req.station_id ELSE Some(Station145)

\* main.py 75-79: any crop but almond is refused.
RejectCrop ==
    /\ pc = "request"
    /\ lower(request.crop) /= "almond"
    /\ response' = Some([status |-> 400,
                         detail |-> "Only 'almond' crop is supported right now."])
    /\ pc' = "done"
    /\ UNCHANGED <<request, raw_json, records, idx, prev_temp, prev_time, results>>

\* mathModel.py 235-256: get_cimis_data answers with some document; flatten
\* and sort it; fresh previous-value maps.
Normalize ==
    /\ pc = "request"
    /\ lower(request.crop) = "almond"
    /\ \E document \in Documents :
          /\ raw_json' = Some(document)
          /\ records' = cimis_json_to_records(document)
    /\ idx' = 1
    /\ prev_temp' = <<>>
    /\ prev_time' = <<>>
    /\ results' = <<>>
    /\ pc' = "enrich"
    /\ UNCHANGED <<request, response>>

\* mathModel.py 258-313: one iteration of "for r in records".
EnrichRecord ==
    /\ pc = "enrich"
    /\ idx <= Len(records)
    /\ LET r == records[idx]
       IN  /\ results' = Append(results, RecordOut(r, prev_temp, prev_time, DeltaOrchard))
           /\ prev_temp' = UpdatePrevTemp(prev_temp, r)
           /\ prev_time' = UpdatePrevTime(prev_time, r)
    /\ idx' = idx + 1
    /\ UNCHANGED <<request, raw_json, pc, records, response>>

\* main.py 81, 92-196: the loop is over; filter, aggregate, classify.
Aggregate ==
    /\ pc = "enrich"
    /\ idx > Len(records)
    /\ response' = Some(Summarize(results, RequestedStation(request)))
    /\ pc' = "done"
    /\ UNCHANGED <<request, raw_json, records, idx, prev_temp, prev_time, results>>

Next == RejectCrop \/ Normalize \/ EnrichRecord \/ Aggregate

Spec == Init /\ [][Next]_vars

-----------------------------------------------------------------------------
(* The aggregator alone, over groups of enriched records whose damage      *)
(* probabilities are drawn at and around the classification thresholds.    *)

MaxGroup == 2

ProbSamples == {290 * Micro, 300 * Micro, 590 * Micro, 600 * Micro, 999 * Micro}

\* An enriched record of station 145 with pinkbud's probability p and every
\* other stage's probability q, or with no stage at all.
SampleRecord(p, q) ==
    [station |-> Some(Station145),
     timestamp |-> isoformat([year |-> 2024, month |-> 1, day |-> 1, hour |-> 3]),
     air_temperature_c |-> Some(-5 * Micro),
     relative_humidity |-> Some(80 * Micro),
     dew_point_c |-> Some(-8 * Micro),
     wet_bulb_c |-> Some(-6 * Micro),
     blossom_temp_c |-> Some(-7 * Micro),
     cooling_rate_c_per_hr |-> <<0, 1>>,
     stages |-> [stage_name \in {StageNames[i] : i \in DOMAIN StageNames} |->
                   [LT10_C |-> ALMOND_LT_CONFIG[stage_name].lt10_c,
                    LT90_C |-> ALMOND_LT_CONFIG[stage_name].lt90_c,
                    damage_prob |-> IF stage_name = "pinkbud" THEN p ELSE q]]]

NoStageRecord ==
    [SampleRecord(0, 0) EXCEPT !.relative_humidity = None, !.dew_point_c = None,
                               !.wet_bulb_c = None, !.blossom_temp_c = None,
                               !.stages = <<>>]

SampleRecords ==
    { SampleRecord(p, q) : p \in ProbSamples, q \in ProbSamples } \cup {NoStageRecord}

InitAgg ==
    /\ request = [crop |-> "Almond", station_id |-> None]
    /\ raw_json = None
    /\ pc = "enrich"
    /\ records = <<>>
    /\ idx = 1
    /\ prev_temp = <<>>
    /\ prev_time = <<>>
    /\ results \in SeqsUpTo(SampleRecords, MaxGroup)
    /\ response = None

SpecAgg == InitAgg /\ [][Aggregate]_vars

-----------------------------------------------------------------------------
(* The damage model alone: get_damage_parameters and damage_curve called   *)
(* with a stage name and a temperature. request holds the arguments and    *)
(* response the outcome of the call.                                       *)

MaxSteps == 4

\* The configured names, other spellings of them, and unknown names.
StageInputs ==
    {StageNames[i] : i \in DOMAIN StageNames}
    \cup {"Pinkbud", "PINKBUD", "SmallNut", "dormant", ""}

\* Temperatures in steps of 5 degC around freezing and in steps of 250 degC
\* far outside the range of weather.
TempInputs ==
    { 5 * k * Micro : k \in -MaxSteps..MaxSteps }
    \cup { 250 * k * Micro : k \in -MaxSteps..MaxSteps }

InitDamage ==
    /\ request \in [stage : StageInputs, temp_c : TempInputs]
    /\ raw_json = None
    /\ pc = "call"
    /\ records = <<>>
    /\ idx = 1
    /\ prev_temp = <<>>
    /\ prev_time = <<>>
    /\ results = <<>>
    /\ response = None

CallGetDamageParameters ==
    /\ pc = "call"
    /\ LET params == get_damage_parameters(request.stage)
       IN  response' = Some([fn |-> "get_damage_parameters",
                             outcome |-> IF params = None THEN Raised("ValueError")
                                         ELSE Returned(Get(params))])
    /\ pc' = "done"
    /\ UNCHANGED <<request, raw_json, records, idx, prev_temp, prev_time, results>>

CallDamageCurve ==
    /\ pc = "call"
    /\ response' = Some([fn |-> "damage_curve",
                         outcome |-> damage_curve(request.temp_c, request.stage)])
    /\ pc' = "done"
    /\ UNCHANGED <<request, raw_json, records, idx, prev_temp, prev_time, results>>

NextDamage == CallGetDamageParameters \/ CallDamageCurve

SpecDamage == InitDamage /\ [][NextDamage]_vars

-----------------------------------------------------------------------------
(* The normalizer alone, on the documents get_cimis_data builds from the   *)
(* database and on documents with one record of any hour code.             *)

MaxHour == 24
MaxCodeLen == 4

Station12 == <<1, 2>>

\* The rows of one station and day, at most two, in the order of the query
\* (by hour; the table holds one row per station, date and hour).
DbRow(hour, air_temp) ==
    [station_id |-> Station12, date |-> Jan1, hour |-> hour,
     air_temp |-> air_temp, humidity |-> Some(80 * Micro)]

DbResults ==
    { <<DbRow(h, t)>> : h \in 0..MaxHour, t \in {None, Some(5 * Micro)} }
    \cup UNION { { <<DbRow(h1, Some(8 * Micro)), DbRow(h2, Some(5 * Micro))>> :
                      h2 \in (h1 + 1)..MaxHour } : h1 \in 0..MaxHour }

\* Every string of at most MaxCodeLen decimal digits, the empty one included.
HourCodes == SeqsUpTo(0..9, MaxCodeLen)

CodeDocument(code) ==
    [Data |-> [Providers |->
        <<Provider(Some(Station12),
                   <<RawRecord(Some(Station12), Some(Jan1), Some(code),
                               ValueObj("5.00"), None, ValueObj("80"), None)>>)>>]]

InitHours ==
    /\ request = [crop |-> "Almond", station_id |-> Some(Station12)]
    /\ raw_json = None
    /\ pc = "fetch"
    /\ records = <<>>
    /\ idx = 1
    /\ prev_temp = <<>>
    /\ prev_time = <<>>
    /\ results = <<>>
    /\ response = None

\* mathModel.py 235-243: the document comes from get_cimis_data.
FetchFromDb ==
    /\ pc = "fetch"
    /\ \E rows \in DbResults : raw_json' = Some(get_cimis_data(rows))
    /\ pc' = "flatten"
    /\ UNCHANGED <<request, records, idx, prev_temp, prev_time, results, response>>

\* The document is one of the CIMIS shape with any hour code in its record.
ReceiveDocument ==
    /\ pc = "fetch"
    /\ \E code \in HourCodes : raw_json' = Some(CodeDocument(code))
    /\ pc' = "flatten"
    /\ UNCHANGED <<request, records, idx, prev_temp, prev_time, results, response>>

\* mathModel.py 245-246: records = cimis_json_to_records(raw_json).
Flatten ==
    /\ pc = "flatten"
    /\ records' = cimis_json_to_records(Get(raw_json))
    /\ pc' = "flattened"
    /\ UNCHANGED <<request, raw_json, idx, prev_temp, prev_time, results, response>>

NextHours == FetchFromDb \/ ReceiveDocument \/ Flatten

SpecHours == InitHours /\ [][NextHours]_vars

-----------------------------------------------------------------------------
(* Properties.                                                             *)

Zero == <<0, 1>>

\* The enriched records emitted so far, by position (results[i] is the
\* record of row records[i]).
Emitted == 1..Len(results)

\* The row of the same station processed just before row i, if any.
Earlier(i) == { j \in 1..(i - 1) : records[j].station = records[i].station }
HasPrior(i) == Earlier(i) /= {}
Prior(i) == records[SetMax(Earlier(i))]

\* Hours from the prior row of the station to row i.
Elapsed(i) == Hours(records[i].timestamp) - Hours(Prior(i).timestamp)

\* A usable prior value: a prior row of the station with a temperature, and
\* a temperature on row i itself.
Usable(i) ==
    /\ HasPrior(i)
    /\ Prior(i).air_temp_c /= None
    /\ records[i].air_temp_c /= None

Drop(i) == Get(Prior(i).air_temp_c) - Get(records[i].air_temp_c)

\* C1: with a usable prior value the cooling rate is (previous - current)
\* over the elapsed hours, the elapsed hours being 1 when the difference of
\* the timestamps is not positive; 10.0 then 8.0 one hour apart gives 2.0.
C1_CoolingRateIsDropPerHour ==
    \A i \in Emitted :
        Usable(i) =>
            LET rate == results[i].cooling_rate_c_per_hr
                elapsedHours == IF Elapsed(i) > 0 THEN Elapsed(i) ELSE 1
            IN  /\ rate[2] > 0
                /\ rate[1] * elapsedHours = Drop(i) * rate[2]
                /\ (Drop(i) = 2 * Micro /\ Elapsed(i) = 1) => rate = <<2 * Micro, 1>>

\* 10.0 then 8.0 one hour apart gave 2.0, and another record of the run had
\* a usable prior value of the same timestamp (one hour was taken).
C1_Witness ==
    /\ \E i \in Emitted :
          /\ Usable(i)
          /\ Prior(i).air_temp_c = Some(10 * Micro)
          /\ records[i].air_temp_c = Some(8 * Micro)
          /\ Elapsed(i) = 1
          /\ results[i].cooling_rate_c_per_hr = <<2 * Micro, 1>>
    /\ \E i \in Emitted :
          /\ Usable(i)
          /\ Elapsed(i) <= 0
          /\ Drop(i) /= 0
          /\ results[i].cooling_rate_c_per_hr[1] = Drop(i)

\* C2: the cooling rate is exactly 0.0 for the first record of a station,
\* for a record whose preceding record of the station had no temperature,
\* and for a record that has no temperature itself.
C2_ZeroRateWithoutUsablePrior ==
    \A i \in Emitted : ~Usable(i) => results[i].cooling_rate_c_per_hr = Zero

\* One station: a temperature, then none, then another temperature; the
\* three cases of the claim in one run.
C2_Witness ==
    /\ Len(results) = 3
    /\ records[1].station = records[2].station
    /\ records[2].station = records[3].station
    /\ records[1].air_temp_c /= None
    /\ records[2].air_temp_c = None
    /\ records[3].air_temp_c /= None
    /\ records[1].air_temp_c /= records[3].air_temp_c
    /\ \A i \in 1..3 : results[i].cooling_rate_c_per_hr = Zero

C4_RowsSortedByStationAndTime ==
    \A i, j \in DOMAIN records :
        i < j =>
            IF records[i].station = records[j].station
            THEN /\ Hours(records[i].timestamp) <= Hours(records[j].timestamp)
                 /\ \A k \in i..j : records[k].station = records[i].station
            ELSE StrLess(Get(records[i].station), Get(records[j].station))

\* A document of two providers whose rows come out in another order than
\* they went in: station 2 between two rows of station 145.
C4_Witness ==
    /\ raw_json /= None
    /\ LET rows == AllRows(Get(raw_json).Data.Providers)
       IN  /\ Len(rows) = 3
           /\ rows[1].station = Some(Station145)
           /\ rows[2].station = Some(Station2)
           /\ rows[3].station = Some(Station145)
           /\ Hours(rows[3].timestamp) < Hours(rows[1].timestamp)
           /\ records /= rows
           /\ Len(records) = 3

\* The raw records of the fetched document, by provider and position.
Providers == Get(raw_json).Data.Providers

RawPositions ==
    IF raw_json = None THEN {}
    ELSE UNION { { <<p, k>> : k \in DOMAIN Providers[p].Records } : p \in DOMAIN Providers }

RawAt(pos) == Providers[pos[1]].Records[pos[2]]

\* A value object that is present with a non-empty, parseable Value.
Parseable(obj) ==
    /\ obj /= None
    /\ Get(obj).Value \notin {None, Some("")}
    /\ float(Get(Get(obj).Value)) /= None

\* The number of the first key of the list that is Parseable, else None.
FirstParseable(rec, keys) ==
    LET good == { k \in DOMAIN keys : Parseable(rec[keys[k]]) }
    IN  IF good = {} THEN None
        ELSE float(Get(Get(rec[keys[SetMin(good)]]).Value))

\* The raw record has a date and an hour that make a date-time.
HasTimestamp(rec) ==
    /\ rec.Date /= None
    /\ rec.Hour /= None
    /\ fromisoformat(Get(rec.Date), HourStr(Get(rec.Hour))) /= None

\* C5 (as claimed): every emitted row carries, for air temperature and for
\* humidity, the value of the first listed key that is present with a
\* non-empty parseable Value (so an empty or unparseable primary key falls
\* back to the hyphenated key), and null only when no key has such a value.
C5_FirstParseableKeyWins ==
    \A pos \in RawPositions :
        HasTimestamp(RawAt(pos)) =>
            \E i \in DOMAIN records :
                /\ records[i].date = Get(RawAt(pos).Date)
                /\ records[i].hour = HourStr(Get(RawAt(pos).Hour))
                /\ records[i].air_temp_c =
                       FirstParseable(RawAt(pos), <<"HlyAirTmp", "hly-air-tmp">>)
                /\ records[i].rel_hum =
                       FirstParseable(RawAt(pos), <<"HlyRelHum", "hly-rel-hum">>)

\* C6: exactly the raw records without a date, without an hour or with a
\* date and hour that make no date-time are dropped; every other record
\* gives one row, also when its values are absent or unparseable.
C6_OneRowPerTimestampedRecord ==
    pc /= "request" =>
        /\ Len(records) = Cardinality({ pos \in RawPositions : HasTimestamp(RawAt(pos)) })
        /\ \A pos \in RawPositions :
              HasTimestamp(RawAt(pos)) =>
                  \E i \in DOMAIN records :
                      records[i] = Get(Row(Providers[pos[1]], RawAt(pos)))

\* Three raw records: one without a date, one with an hour code that is no
\* time of day, and one with neither temperature nor humidity, which alone
\* gives a row (of null values).
C6_Witness ==
    /\ Cardinality(RawPositions) = 3
    /\ \E pos \in RawPositions : RawAt(pos).Date = None
    /\ \E pos \in RawPositions :
          /\ RawAt(pos).Date /= None
          /\ RawAt(pos).Hour /= None
          /\ ~HasTimestamp(RawAt(pos))
    /\ Len(records) = 1
    /\ records[1].air_temp_c = None
    /\ records[1].rel_hum = None

\* C7: dew point, wet bulb and blossom temperature are all null when the air
\* temperature or the humidity is null and all non-null otherwise; the
\* stages mapping is empty exactly when the blossom temperature is null and
\* otherwise has an entry for each of the five configured stages.
C7_DerivedFieldsAllOrNothing ==
    \A i \in Emitted :
        LET e == results[i]
            derived == {e.dew_point_c, e.wet_bulb_c, e.blossom_temp_c}
        IN  /\ e.air_temperature_c = records[i].air_temp_c
            /\ e.relative_humidity = records[i].rel_hum
            /\ IF e.air_temperature_c = None \/ e.relative_humidity = None
               THEN derived = {None}
               ELSE None \notin derived
            /\ IF e.blossom_temp_c = None
               THEN DOMAIN e.stages = {}
               ELSE DOMAIN e.stages =
                        {"pinkbud", "fullbloom", "petalfall", "fruitset", "smallnut"}

\* One run with a record lacking only the temperature, one lacking only the
\* humidity and one complete record with its five stages.
C7_Witness ==
    /\ \E i \in Emitted :
          /\ results[i].air_temperature_c = None
          /\ results[i].relative_humidity /= None
          /\ results[i].stages = <<>>
    /\ \E i \in Emitted :
          /\ results[i].air_temperature_c /= None
          /\ results[i].relative_humidity = None
          /\ results[i].blossom_temp_c = None
    /\ \E i \in Emitted :
          /\ results[i].blossom_temp_c /= None
          /\ Cardinality(DOMAIN results[i].stages) = 5

\* The group the handler aggregates: the enriched records of the requested
\* station; the damage probabilities the group carries.
GroupIdx == { i \in DOMAIN results : results[i].station = RequestedStation(request) }

Carrying(stage) == { i \in GroupIdx : stage \in DOMAIN results[i].stages }

GroupProbs == UNION { { results[i].stages[stage].damage_prob : i \in Carrying(stage) } :
                      stage \in DOMAIN ALMOND_LT_CONFIG }

Answered == pc = "done" /\ lower(request.crop) = "almond"

Summarized == Answered /\ Get(response).status = 200

\* C8: the risk level depends on the overall maximum damage probability
\* only: low below 0.3, moderate from 0.3 to below 0.6, high from 0.6
\* (0.29 low, 0.3 moderate, 0.59 moderate, 0.6 high).
C8_RiskLevelByThresholds ==
    Summarized =>
        LET m == SetMax(GroupProbs \cup {0})
            level == Get(response).riskLevel
        IN  /\ level \in {"low", "moderate", "high"}
            /\ level = "low" <=> m < 300 * Micro
            /\ level = "moderate" <=> (m >= 300 * Micro /\ m < 600 * Micro)
            /\ level = "high" <=> m >= 600 * Micro
            /\ m = 290 * Micro => level = "low"
            /\ m = 300 * Micro => level = "moderate"
            /\ m = 590 * Micro => level = "moderate"
            /\ m = 600 * Micro => level = "high"

\* A group whose overall maximum is exactly 0.3, classified moderate, one
\* of its records carrying only smaller probabilities.
C8_Witness ==
    /\ Summarized
    /\ SetMax(GroupProbs \cup {0}) = 300 * Micro
    /\ 290 * Micro \in GroupProbs
    /\ Get(response).riskLevel = "moderate"

ZeroDefaults(summary) ==
    /\ summary.status = 200
    /\ summary.airTempMin = 0
    /\ summary.airTempMax = 0
    /\ summary.dewPointMin = 0
    /\ summary.dewPointMax = 0
    /\ summary.humidityMin = 0
    /\ summary.humidityMax = 0
    /\ \A name \in DOMAIN summary.stages : summary.stages[name].probability = 0
    /\ summary.riskLevel = "low"

C10_StageProbabilityIsGroupMaximum ==
    Summarized =>
        LET summary == Get(response)
            reported(stage) == summary.stages[capitalize(stage)].probability
        IN  /\ \A stage \in DOMAIN ALMOND_LT_CONFIG :
                  IF Carrying(stage) = {} THEN reported(stage) = 0
                  ELSE /\ \E i \in Carrying(stage) :
                             reported(stage) = results[i].stages[stage].damage_prob
                       /\ \A i \in Carrying(stage) :
                             reported(stage) >= results[i].stages[stage].damage_prob
            /\ summary.riskLevel =
                   RiskLevel(SetMax({ reported(stage) : stage \in DOMAIN ALMOND_LT_CONFIG }))
            /\ (\A i \in GroupIdx : results[i].blossom_temp_c = None)
                   => summary.riskLevel = "low"

\* A group of three records: one without blossom temperature, one of
\* moderate and one of high damage probability; the high one is reported.
C10_Witness ==
    /\ Summarized
    /\ Cardinality(GroupIdx) = 3
    /\ \E i \in GroupIdx : results[i].blossom_temp_c = None
    /\ \E i, j \in Carrying("pinkbud") :
          /\ results[i].stages["pinkbud"].damage_prob
                 > results[j].stages["pinkbud"].damage_prob
          /\ Get(response).stages["Pinkbud"].probability
                 = results[i].stages["pinkbud"].damage_prob
          /\ RiskLevel(results[j].stages["pinkbud"].damage_prob) = "moderate"
    /\ Get(response).riskLevel = "high"

-----------------------------------------------------------------------------
(* Properties of the damage model (under SpecDamage).                      *)

Called(fn) == pc = "done" /\ response /= None /\ Get(response).fn = fn

Outcome == Get(response).outcome

FiveStages == {"pinkbud", "fullbloom", "petalfall", "fruitset", "smallnut"}

\* The parameter table of the specification, (a, b) in tenths.
ParameterTable ==
    [pinkbud   |-> [a |-> 100, b |-> 15],
     fullbloom |-> [a |-> 90, b |-> 14],
     petalfall |-> [a |-> 80, b |-> 13],
     fruitset  |-> [a |-> 70, b |-> 12],
     smallnut  |-> [a |-> 60, b |-> 11]]

\* C11 (as claimed): for every stage name that is not one of the five
\* lowercase identifiers get_damage_parameters raises and damage_curve
\* propagates the error; for each of the five it returns the tabulated pair.
C11_OnlyLowercaseNamesAccepted ==
    /\ Called("get_damage_parameters") =>
          IF request.stage \in FiveStages
          THEN Outcome = Returned(ParameterTable[request.stage])
          ELSE Outcome = Raised("ValueError")
    /\ (Called("damage_curve") /\ request.stage \notin FiveStages) =>
          Outcome = Raised("ValueError")

\* C11 (amended): the stage name is lower-cased first. A name whose
\* lower-cased form is none of the five raises ValueError in
\* get_damage_parameters, and damage_curve propagates it; any spelling of
\* one of the five, in whatever letter case, gets that stage's tabulated pair
\* and no ValueError from damage_curve.
C11_NamesAcceptedInAnyLetterCase ==
    /\ Called("get_damage_parameters") =>
          IF lower(request.stage) \in FiveStages
          THEN Outcome = Returned(ParameterTable[lower(request.stage)])
          ELSE Outcome = Raised("ValueError")
    /\ Called("damage_curve") =>
          (Outcome = Raised("ValueError") <=> lower(request.stage) \notin FiveStages)

\* damage_curve was called with an unknown stage name and raised the
\* ValueError of the parameter lookup.
C11_Witness ==
    /\ Called("damage_curve")
    /\ request.stage = "dormant"
    /\ Outcome = Raised("ValueError")

\* C12 (as claimed): for every configured stage and every temperature
\* damage_curve returns, without raising, a probability strictly between 0
\* and 1.
C12_ProbabilityStrictlyInsideUnitInterval ==
    (Called("damage_curve") /\ request.stage \in FiveStages) =>
        /\ Outcome.ok
        /\ Outcome.value > 0
        /\ Outcome.value < 1000 * Micro

-----------------------------------------------------------------------------
(* Properties of the hour normalization (under SpecHours).                 *)

Flattened == pc = "flattened"

\* The raw records of the document, in order (one provider).
RawList == Providers[1].Records

\* The hour the claim gives a code: the first two characters of a
\* 4-character code ending in 00, otherwise the code padded with zeros on
\* the left to two characters.
ClaimedHour(code) ==
    IF Len(code) = 4 /\ code[3] = 0 /\ code[4] = 0 THEN <<code[1], code[2]>>
    ELSE IF Len(code) = 0 THEN <<0, 0>>
    ELSE IF Len(code) = 1 THEN <<0, code[1]>>
    ELSE code

\* A two-digit hour of the day, 00..23.
HourOfDay(hour_str) == Len(hour_str) = 2 /\ 10 * hour_str[1] + hour_str[2] \in 0..23

Kept == { i \in DOMAIN RawList : HourOfDay(ClaimedHour(Get(RawList[i].Hour))) }

\* C13: every emitted observation has a two-digit hour 00..23 and the
\* timestamp of its date at that hour; the observations are, one each and
\* in order, those of the records whose normalized hour code (first two
\* characters of HH00, otherwise zero-padded to two) is an hour of the day;
\* so one record with code HH00, HH in 00..23, yields exactly one
\* observation with hour HH and timestamp date T HH:00:00.
C13_HourNormalization ==
    Flattened =>
        /\ \A i \in DOMAIN records :
              /\ HourOfDay(records[i].hour)
              /\ records[i].timestamp.hour = 10 * records[i].hour[1] + records[i].hour[2]
              /\ records[i].timestamp.hour \in 0..23
              /\ <<records[i].timestamp.year, records[i].timestamp.month,
                   records[i].timestamp.day>> = records[i].date
        /\ Len(records) = Cardinality(Kept)
        /\ \A i \in Kept :
              LET n == Cardinality({ j \in Kept : j <= i })
              IN  /\ records[n].hour = ClaimedHour(Get(RawList[i].Hour))
                  /\ records[n].date = Get(RawList[i].Date)
                  /\ records[n].station = RawList[i].Station

\* The round trip of the specification: one record of station "12" with
\* code 0300 gave one observation of hour 03 at 2024-01-01T03:00:00.
C13_Witness ==
    /\ Flattened
    /\ Len(RawList) = 1
    /\ RawList[1].Hour = Some(<<0, 3, 0, 0>>)
    /\ RawList[1].Station = Some(Station12)
    /\ Len(records) = 1
    /\ records[1].hour = <<0, 3>>
    /\ isoformat(records[1].timestamp) = <<2024, 1, 1, "T", 3, 0, 0>>

-----------------------------------------------------------------------------
(* Station independence of the enrichment pass (under Spec).               *)

\* The rows processed so far, and the members of a sequence of rows or of
\* enriched records that belong to one station.
Processed == SubSeq(records, 1, Len(results))

OfStation(seq, station) == SelectSeq(seq, LAMBDA x : x.station = station)

Last(seq) == seq[Len(seq)]

\* C14: at every point of the pass, for each station the enriched records
\* emitted so far are exactly those of the pass run on that station's rows
\* alone with fresh previous-value maps; and the maps hold, for each station
\* met so far and for no other, the air temperature and timestamp of that
\* station's own last row, whatever rows of other stations came after it.
C14_StationsEnrichedIndependently ==
    (pc \in {"enrich", "done"} /\ raw_json /= None) =>
        /\ \A station \in { records[i].station : i \in DOMAIN records } :
              OfStation(results, station) = EnrichAll(OfStation(Processed, station))
        /\ DOMAIN prev_temp = { Processed[i].station : i \in DOMAIN Processed }
        /\ DOMAIN prev_time = DOMAIN prev_temp
        /\ \A station \in DOMAIN prev_temp :
              /\ prev_temp[station] = Last(OfStation(Processed, station)).air_temp_c
              /\ prev_time[station] = Some(Last(OfStation(Processed, station)).timestamp)

\* Two rows of one station with a cooling rate between them, then the first
\* row of another station at a different temperature: its rate is 0.0 and
\* the first station's previous temperature is still its own.
C14_Witness ==
    /\ pc = "done"
    /\ Len(results) = 3
    /\ results[1].station = results[2].station
    /\ results[2].cooling_rate_c_per_hr /= <<0, 1>>
    /\ results[3].station /= results[2].station
    /\ results[3].air_temperature_c /= None
    /\ results[2].air_temperature_c /= None
    /\ results[3].air_temperature_c /= results[2].air_temperature_c
    /\ results[3].cooling_rate_c_per_hr = <<0, 1>>
    /\ prev_temp[results[2].station] = results[2].air_temperature_c

=============================================================================
